---- MODULE Spec2Model ----
(***************************************************************************)
(* Model of xeno-canto_request.py: the page-fetching loop get_recordings,  *)
(* the table writer save_recordings_to_csv, the downloader                 *)
(* download_audio_files, and the __main__ block that runs the three in     *)
(* order.  The remote server, the file system and pandas' CSV writer and   *)
(* reader are modelled by what the code observes of them.                  *)
(***************************************************************************)
EXTENDS Integers, Sequences, FiniteSets, TLC

VARIABLES
    pc,           \* the call that runs next, or "done" / "raised"
    exc,          \* the uncaught exception that ended the process, if any
    max_pages,    \* --max_pages
    filename,     \* --filename, a path (sequence of components)
    output_dir,   \* --output_dir, a path
    page,         \* get_recordings: the local `page`
    recordings,   \* get_recordings: the local `recordings`, then main's
    requested,    \* history: the page numbers requested, in order
    responses,    \* history: the server's answer to each request
    dirs,         \* file system: the directories that exist
    csv_file,     \* file system: the file at the table's path
    audio,        \* file system: the files in output_dir, name -> content
    df,           \* download_audio_files: the table read back
    row_i,        \* download_audio_files: index of the row processed next
    attempted,    \* history: the rows whose GET was issued and how it ended
    saved,        \* history: the rows whose body was written to a file
    failures      \* history: the file names printed by "Failed to download"

vars == <<pc, exc, max_pages, filename, output_dir, page, recordings,
          requested, responses, dirs, csv_file, audio, df, row_i,
          attempted, saved, failures>>

----------------------------------------------------------------------------
(* Bounds of the model. *)

MaxPages == 3        \* --max_pages ranges over 0..MaxPages
MaxNumPages == 3     \* a response's numPages ranges over 0..MaxNumPages
MaxRows == 3         \* a table handed to the downloader has 0..MaxRows rows

----------------------------------------------------------------------------
(* JSON / Python values, tagged by type. *)

Null == [t |-> "null"]
Str(s) == [t |-> "str", v |-> s]
List(l) == [t |-> "list", v |-> l]
Map(m) == [t |-> "map", v |-> m]
NaN == [t |-> "nan"]

\* Python truthiness of a JSON value: None, "", [] and {} are false.
Truthy(x) ==
    CASE x.t = "null" -> FALSE
      [] x.t = "str" -> x.v # ""
      [] x.t = "list" -> x.v # <<>>
      [] x.t = "map" -> DOMAIN x.v # {}

\* dict.get(key): the value, or None when the key is absent.
DictGet(d, key) == IF key \in DOMAIN d THEN d[key] ELSE Null

\* dict.get(key, default)
DictGetDefault(d, key, default) == IF key \in DOMAIN d THEN d[key] ELSE default

\* sep.join(l) for a list of strings
RECURSIVE Join(_, _)
Join(sep, l) ==
    IF l = <<>> THEN ""
    ELSE IF Len(l) = 1 THEN l[1]
    ELSE l[1] \o sep \o Join(sep, Tail(l))

\* list.extend
Extend(l, items) == l \o items

Min(a, b) == IF a < b THEN a ELSE b
Max(a, b) == IF a > b THEN a ELSE b

----------------------------------------------------------------------------
(* Paths and the file system. *)

Dirname(p) == SubSeq(p, 1, Len(p) - 1)

\* os.path.exists for a directory path; the working directory <<>> exists.
DirExists(ds, p) == p = <<>> \/ p \in ds

\* os.makedirs: the directory and every missing parent.
Makedirs(ds, p) == ds \cup {SubSeq(p, 1, n) : n \in 1..Len(p)}

XenoCantoDir == <<"xeno-canto">>
DefaultFilename == <<"xeno-canto", "recordings.csv">>
DefaultOutputDir == <<"xeno-canto", "audio_files">>

Filenames == {DefaultFilename, <<"out", "recordings.csv">>}
OutputDirs == {DefaultOutputDir, <<"data", "audio">>}

NoFile == [exists |-> FALSE]
NoExc == [type |-> "none", in |-> "none"]
Raised(type, in) == [type |-> type, in |-> in]
NoDf == [columns |-> <<>>, rows |-> <<>>]

----------------------------------------------------------------------------
(* The declared columns, in the order of the dict literal of               *)
(* save_recordings_to_csv.                                                  *)

Columns ==
    <<"id", "gen", "sp", "ssp", "group", "en", "rec", "cnt", "loc", "lat",
      "lng", "alt", "type", "sex", "stage", "method", "url", "file",
      "file-name", "sono_small", "sono_med", "sono_large", "sono_full",
      "osci_small", "osci_med", "osci_large", "lic", "q", "length", "time",
      "date", "uploaded", "also", "rmk", "bird-seen", "animal-seen",
      "playback-used", "temp", "regnr", "auto", "dvc", "mic", "smp">>

ColumnSet == {Columns[i] : i \in 1..Len(Columns)}

\* The columns taken from a nested mapping: column -> <<parent key, sub key>>.
NestedCols ==
    [sono_small |-> <<"sono", "small">>, sono_med |-> <<"sono", "med">>,
     sono_large |-> <<"sono", "large">>, sono_full |-> <<"sono", "full">>,
     osci_small |-> <<"osci", "small">>, osci_med |-> <<"osci", "med">>,
     osci_large |-> <<"osci", "large">>]

\* The columns read with a plain record.get(column).
PlainCols == ColumnSet \ (DOMAIN NestedCols \cup {"also"})

\* record[parent].get(sub) if record.get(parent) else None
NestedGet(record, parent, sub) ==
    IF Truthy(DictGet(record, parent))
    THEN DictGet(record[parent].v, sub)
    ELSE Null

\* ", ".join(record.get("also", []))
AlsoCell(record) == Str(Join(", ", DictGetDefault(record, "also", List(<<>>)).v))

\* The exception the dict literal raises for this record, or "none": a truthy
\* sono/osci that is no mapping has no .get (AttributeError); str.join of a
\* value that is not a list, None included, is a TypeError.  The literal is
\* evaluated top to bottom, so the nested columns come first.
FlattenError(record) ==
    IF \E c \in DOMAIN NestedCols :
           /\ Truthy(DictGet(record, NestedCols[c][1]))
           /\ record[NestedCols[c][1]].t # "map"
    THEN "AttributeError"
    ELSE IF DictGetDefault(record, "also", List(<<>>)).t # "list"
    THEN "TypeError"
    ELSE "none"

\* flattened_record: column -> value (None or a string).
FlattenRecord(record) ==
    [c \in ColumnSet |->
        IF c \in DOMAIN NestedCols
        THEN NestedGet(record, NestedCols[c][1], NestedCols[c][2])
        ELSE IF c = "also" THEN AlsoCell(record)
        ELSE DictGet(record, c)]

\* The for loop of save_recordings_to_csv over a list of records.
FlattenAll(recs) == [i \in 1..Len(recs) |-> FlattenRecord(recs[i])]

FlattenAllError(recs) ==
    IF \E i \in 1..Len(recs) : FlattenError(recs[i]) # "none"
    THEN LET i == CHOOSE j \in 1..Len(recs) :
                      /\ FlattenError(recs[j]) # "none"
                      /\ \A k \in 1..(j - 1) : FlattenError(recs[k]) = "none"
         IN FlattenError(recs[i])
    ELSE "none"

\* DataFrame.to_csv writes None as an empty cell.
CellText(x) == IF x.t = "null" THEN "" ELSE x.v

\* pd.DataFrame(flattened_data).to_csv(index=False): the columns are the keys
\* of the row dicts, so a frame built from no rows has no columns and its
\* file has an empty header line.
ToCsv(flattened_data) ==
    IF flattened_data = <<>>
    THEN [exists |-> TRUE, header |-> <<>>, rows |-> <<>>]
    ELSE [exists |-> TRUE, header |-> Columns,
          rows |-> [i \in 1..Len(flattened_data) |->
                      [j \in 1..Len(Columns) |->
                          CellText(flattened_data[i][Columns[j]])]]]

\* pd.read_csv: an empty cell reads back as NaN; a file with no header
\* columns raises EmptyDataError.
ReadCsvError(file) == IF file.header = <<>> THEN "EmptyDataError" ELSE "none"

ReadCell(text) == IF text = "" THEN NaN ELSE Str(text)

ReadCsv(file) ==
    [columns |-> file.header,
     rows |-> [i \in 1..Len(file.rows) |->
                 [c \in {file.header[j] : j \in 1..Len(file.header)} |->
                     LET j == CHOOSE k \in 1..Len(file.header) : file.header[k] = c
                     IN ReadCell(file.rows[i][j])]]]

----------------------------------------------------------------------------
(* The records the modelled server can return. *)

MkRec(tag, keys) == [k \in keys |-> Str(tag \o "." \o k)]

\* every field present
RecA ==
    [k \in PlainCols \cup {"sono", "osci", "also"} |->
        IF k = "sono"
        THEN Map([s \in {"small", "med", "large", "full"} |-> Str("A.sono." \o s)])
        ELSE IF k = "osci"
        THEN Map([s \in {"small", "med", "large"} |-> Str("A.osci." \o s)])
        ELSE IF k = "also" THEN List(<<"Turdus merula", "Parus major">>)
        ELSE Str("A." \o k)]

\* most fields absent, the nested mappings and the also list included
RecB == MkRec("B", {"id", "gen", "file", "file-name"})

\* fields present with an explicit null, a partial nested mapping
RecC ==
    [k \in {"id", "gen", "ssp", "rmk", "file", "file-name", "sono", "osci", "also"} |->
        IF k \in {"ssp", "rmk", "sono"} THEN Null
        ELSE IF k = "osci" THEN Map([s \in {"small"} |-> Str("C.osci." \o s)])
        ELSE IF k = "also" THEN List(<<"Parus major">>)
        ELSE Str("C." \o k)]

\* the also list present with an explicit null
RecD ==
    [k \in {"id", "file", "file-name", "also"} |->
        IF k = "also" THEN Null ELSE Str("D." \o k)]

\* The "recordings" member of a response body: absent, or a list of records.
NoRecordings == [has |-> FALSE]
Recs(l) == [has |-> TRUE, v |-> l]
Bodies == {NoRecordings, Recs(<<RecA>>), Recs(<<RecB, RecC>>), Recs(<<RecD>>)}

\* The "numPages" member: absent, not a number, or an integer.
NumPagesAbsent == [p |-> "absent"]
NumPagesGarbage == [p |-> "garbage"]
NumPagesInt(n) == [p |-> "int", v |-> n]
NumPagesFields ==
    {NumPagesAbsent, NumPagesGarbage} \cup {NumPagesInt(n) : n \in 0..MaxNumPages}

\* What one page request can end in.
Responses ==
    {[kind |-> "ConnectionError"], [kind |-> "HTTPError"], [kind |-> "NotJson"]}
    \cup {[kind |-> "ok", numPages |-> n, recordings |-> b] :
             n \in NumPagesFields, b \in Bodies}

\* data.get("recordings", [])
BodyRecordings(resp) == IF resp.recordings.has THEN resp.recordings.v ELSE <<>>

----------------------------------------------------------------------------
(* get_recordings *)

\* while page <= max_pages
LoopCondition(p, m) == p <= m

\* a loop that stops one page late
IsLastPage_Strict(p, n) == p > n

\* if page >= int(data["numPages"]): break
IsLastPage(p, n) == p >= n

\* a loop that forgets to advance
NextPage_Stuck(p) == p

\* page += 1
NextPage(p) == p + 1

\* recordings.extend(data.get("recordings", []))
Accumulate(acc, resp) == Extend(acc, BodyRecordings(resp))

\* Whether the except clause of get_recordings catches the failure of a
\* request.  ConnectionError and HTTPError (raise_for_status) are
\* RequestExceptions.  A body that is not JSON makes response.json() raise
\* requests' JSONDecodeError, a RequestException, in requests >= 2.27, and a
\* plain ValueError before: either can be the installed library.
CaughtChoices(kind) ==
    IF kind = "NotJson" THEN {TRUE, FALSE} ELSE {TRUE}

\* The state a process is left in by an exception nothing catches.
Crash(type, in) ==
    /\ pc' = "raised"
    /\ exc' = Raised(type, in)

\* One iteration of the while loop, for one answer of the server.
RequestPage(resp) ==
    /\ requested' = Append(requested, page)
    /\ responses' = Append(responses, resp)
    /\ IF resp.kind # "ok"
       THEN \E caught \in CaughtChoices(resp.kind) :
                /\ IF caught
                   THEN pc' = "save_recordings_to_csv" /\ exc' = exc
                   ELSE Crash("ValueError", "get_recordings")
                /\ UNCHANGED <<page, recordings>>
       ELSE /\ recordings' = Accumulate(recordings, resp)
            /\ IF resp.numPages.p = "absent"
               THEN Crash("KeyError", "get_recordings") /\ page' = page
               ELSE IF resp.numPages.p = "garbage"
               THEN Crash("ValueError", "get_recordings") /\ page' = page
               ELSE IF IsLastPage(page, resp.numPages.v)
               THEN /\ pc' = "save_recordings_to_csv"
                    /\ UNCHANGED <<exc, page>>
               ELSE /\ page' = NextPage(page)
                    /\ UNCHANGED <<pc, exc>>

\* One iteration of the while loop: one page request and what follows it.
GetRecordingsPage ==
    /\ pc = "get_recordings"
    /\ LoopCondition(page, max_pages)
    /\ \/ \E resp \in {r \in Responses : r.kind = "ok"} : RequestPage(resp)
       \/ \E resp \in {r \in Responses : r.kind # "ok"} : RequestPage(resp)
    /\ UNCHANGED <<max_pages, filename, output_dir, dirs, csv_file, audio, df,
                   row_i, attempted, saved, failures>>

\* The loop condition fails: return recordings.
GetRecordingsReturn ==
    /\ pc = "get_recordings"
    /\ ~LoopCondition(page, max_pages)
    /\ pc' = "save_recordings_to_csv"
    /\ UNCHANGED <<exc, max_pages, filename, output_dir, page, recordings,
                   requested, responses, dirs, csv_file, audio, df, row_i,
                   attempted, saved, failures>>

----------------------------------------------------------------------------
(* The process as __main__ starts it. *)

EmptyDir == [n \in {} |-> ""]

\* The directories that exist before the run: none, or those of an earlier
\* run with the default arguments.
InitDirs == {{}, {XenoCantoDir, DefaultOutputDir}}

Init ==
    /\ pc = "get_recordings"
    /\ exc = NoExc
    /\ max_pages \in 0..MaxPages
    /\ filename \in Filenames
    /\ output_dir \in OutputDirs
    /\ page = 1
    /\ recordings = <<>>
    /\ requested = <<>>
    /\ responses = <<>>
    /\ dirs \in InitDirs
    /\ csv_file = NoFile
    /\ audio = EmptyDir
    /\ df = NoDf
    /\ row_i = 1
    /\ attempted = <<>>
    /\ saved = {}
    /\ failures = <<>>

\* get_recordings alone.  Every request is answered (by a response or by an
\* error), so an enabled step of the loop is eventually taken.
FetchNext == GetRecordingsPage \/ GetRecordingsReturn

FetchSpec == Init /\ [][FetchNext]_vars /\ WF_vars(FetchNext)

----------------------------------------------------------------------------
(* save_recordings_to_csv *)

\* if not os.path.exists("xeno-canto"): os.makedirs("xeno-canto")
EnsureTableDir(ds, fn) ==
    IF DirExists(ds, XenoCantoDir) THEN ds ELSE Makedirs(ds, XenoCantoDir)

\* df.to_csv(filename) opens the file for writing: its directory must exist.
CanWrite(ds, fn) == DirExists(ds, Dirname(fn))

\* The whole call: the directory check, the flattening loop, the write.
SaveRecordingsToCsv ==
    /\ pc = "save_recordings_to_csv"
    /\ dirs' = EnsureTableDir(dirs, filename)
    /\ IF FlattenAllError(recordings) # "none"
       THEN /\ Crash(FlattenAllError(recordings), "save_recordings_to_csv")
            /\ csv_file' = csv_file
       ELSE IF ~CanWrite(dirs', filename)
       THEN /\ Crash("OSError", "save_recordings_to_csv")
            /\ csv_file' = csv_file
       ELSE /\ csv_file' = ToCsv(FlattenAll(recordings))
            /\ pc' = "download_audio_files"
            /\ exc' = exc
    /\ UNCHANGED <<max_pages, filename, output_dir, page, recordings,
                   requested, responses, audio, df, row_i, attempted, saved,
                   failures>>

----------------------------------------------------------------------------
(* download_audio_files *)

\* if not os.path.exists(output_dir): os.makedirs(output_dir, exist_ok=True)
EnsureOutputDir(ds, out) ==
    IF DirExists(ds, out) THEN ds ELSE Makedirs(ds, out)

\* What requests.get(file_url) followed by raise_for_status() can end in.  A
\* NaN url (an empty cell) never reaches the network: requests rejects it
\* with MissingSchema, a RequestException.
GetOutcomes(file_url) ==
    IF file_url.t # "str" THEN {"MissingSchema"}
    ELSE {"ok", "ConnectionError", "HTTPError"}

\* response.content
Content(file_url) == "content of " \o file_url.v

\* with open(output_path, "wb") as f: f.write(response.content)
WriteFile(files, name, content) ==
    [n \in DOMAIN files \cup {name} |-> IF n = name THEN content ELSE files[n]]

\* A try block that opens the file before the GET: a failure leaves it empty.
TryBlock_OpenFirst(files, name, file_url, outcome) ==
    IF outcome = "ok"
    THEN [files |-> WriteFile(files, name, Content(file_url)), caught |-> FALSE]
    ELSE [files |-> WriteFile(files, name, ""), caught |-> TRUE]

\* The try block: the file is opened and written only after the GET and
\* raise_for_status() have succeeded; their RequestException is caught.
TryBlock(files, name, file_url, outcome) ==
    IF outcome = "ok"
    THEN [files |-> WriteFile(files, name, Content(file_url)), caught |-> FALSE]
    ELSE [files |-> files, caught |-> TRUE]

\* An except clause that gives up on the remaining rows.
AfterCaught_Break(i) == [pc |-> "done", row_i |-> i]

\* The except clause only prints: the for loop goes on with the next row.
AfterCaught(i) == [pc |-> "download_rows", row_i |-> i + 1]

\* pd.read_csv(csv_filename) and the creation of output_dir.
DownloadOpen ==
    /\ pc = "download_audio_files"
    /\ IF ~csv_file.exists
       THEN /\ Crash("FileNotFoundError", "download_audio_files")
            /\ UNCHANGED <<df, dirs, row_i>>
       ELSE IF ReadCsvError(csv_file) # "none"
       THEN /\ Crash(ReadCsvError(csv_file), "download_audio_files")
            /\ UNCHANGED <<df, dirs, row_i>>
       ELSE /\ df' = ReadCsv(csv_file)
            /\ dirs' = EnsureOutputDir(dirs, output_dir)
            /\ row_i' = 1
            /\ pc' = "download_rows"
            /\ exc' = exc
    /\ UNCHANGED <<max_pages, filename, output_dir, page, recordings,
                   requested, responses, csv_file, audio, attempted, saved,
                   failures>>

\* One iteration of the for loop over df.iterrows().
DownloadRow ==
    /\ pc = "download_rows"
    /\ row_i <= Len(df.rows)
    /\ LET row == df.rows[row_i] IN
       IF "file" \notin DOMAIN row \/ "file-name" \notin DOMAIN row
       THEN /\ Crash("KeyError", "download_audio_files")
            /\ UNCHANGED <<row_i, audio, attempted, saved, failures>>
       ELSE IF row["file-name"].t # "str"
       THEN \* os.path.join(output_dir, nan)
            /\ Crash("TypeError", "download_audio_files")
            /\ UNCHANGED <<row_i, audio, attempted, saved, failures>>
       ELSE \E outcome \in GetOutcomes(row["file"]) :
            LET name == row["file-name"].v
                try == TryBlock(audio, name, row["file"], outcome)
            IN /\ attempted' = Append(attempted, [row |-> row_i, outcome |-> outcome])
               /\ audio' = try.files
               /\ IF try.caught
                  THEN /\ failures' = Append(failures, name)
                       /\ saved' = saved
                       /\ pc' = AfterCaught(row_i).pc
                       /\ row_i' = AfterCaught(row_i).row_i
                       /\ exc' = exc
                  ELSE /\ saved' = saved \cup {row_i}
                       /\ failures' = failures
                       /\ row_i' = row_i + 1
                       /\ UNCHANGED <<pc, exc>>
    /\ UNCHANGED <<max_pages, filename, output_dir, page, recordings,
                   requested, responses, dirs, csv_file, df>>

\* The loop is exhausted: download_audio_files returns, and so does __main__.
DownloadReturn ==
    /\ pc = "download_rows"
    /\ row_i > Len(df.rows)
    /\ pc' = "done"
    /\ UNCHANGED <<exc, max_pages, filename, output_dir, page, recordings,
                   requested, responses, dirs, csv_file, audio, df, row_i,
                   attempted, saved, failures>>

----------------------------------------------------------------------------
(* __main__: get_recordings, save_recordings_to_csv, download_audio_files. *)

Next ==
    \/ GetRecordingsPage
    \/ GetRecordingsReturn
    \/ SaveRecordingsToCsv
    \/ DownloadOpen
    \/ DownloadRow
    \/ DownloadReturn

Spec == Init /\ [][Next]_vars

----------------------------------------------------------------------------
(* download_audio_files called on a table file of any shape.               *)

\* Headers a table file can have: the downloader's two columns beside
\* another one, either of the two missing, both missing, no header at all.
TableHeaders ==
    {<<"id", "file", "file-name">>, <<"id", "file">>, <<"id", "file-name">>,
     <<"id">>, <<>>}

\* Data rows as column -> cell text; an empty text is an empty cell.
TableRow(id, url, name) == [c \in {"id", "file", "file-name"} |->
    IF c = "id" THEN id ELSE IF c = "file" THEN url ELSE name]

TableRows ==
    {TableRow("1", "http://xc/1", "a.mp3"), TableRow("2", "http://xc/2", "b.mp3"),
     TableRow("3", "", "c.mp3"), TableRow("4", "http://xc/4", "")}

RowSeqs(n) == UNION {[1..k -> TableRows] : k \in 0..n}

\* The file with this header holding these rows.
TableFile(header, rows) ==
    [exists |-> TRUE, header |-> header,
     rows |-> IF header = <<>> THEN <<>>
              ELSE [i \in 1..Len(rows) |->
                      [j \in 1..Len(header) |-> rows[i][header[j]]]]]

TableFiles == {TableFile(h, r) : h \in TableHeaders, r \in RowSeqs(MaxRows)}

\* The output directory before the call: missing, empty, or holding a file
\* of an earlier run.
OldFiles == [n \in {"a.mp3"} |-> "old content"]

DlInit ==
    /\ pc = "download_audio_files"
    /\ exc = NoExc
    /\ max_pages = 1
    /\ filename = DefaultFilename
    /\ output_dir \in OutputDirs
    /\ page = 1
    /\ recordings = <<>>
    /\ requested = <<>>
    /\ responses = <<>>
    /\ csv_file \in TableFiles \cup {NoFile}
    /\ \E before \in {"missing", "empty", "used"} :
        /\ dirs = IF before = "missing" THEN {XenoCantoDir}
                  ELSE Makedirs({XenoCantoDir}, output_dir)
        /\ audio = IF before = "used" THEN OldFiles ELSE EmptyDir
    /\ df = NoDf
    /\ row_i = 1
    /\ attempted = <<>>
    /\ saved = {}
    /\ failures = <<>>

DlNext == DownloadOpen \/ DownloadRow \/ DownloadReturn

DlSpec == DlInit /\ [][DlNext]_vars

----------------------------------------------------------------------------
(* Properties of get_recordings. *)

\* get_recordings has returned to its caller (it did not raise).
GetRecordingsReturned == pc # "get_recordings" /\ exc.in # "get_recordings"

\* Every request was answered by a well-formed page reporting numPages = k.
AllPagesReport(k) ==
    \A i \in 1..Len(responses) :
        responses[i].kind = "ok" /\ responses[i].numPages = NumPagesInt(k)

\* The request failed, or its response is malformed.
IsFailure(resp) == resp.kind # "ok" \/ resp.numPages.p # "int"

\* The records of a sequence of responses, in the order received.
RECURSIVE RecordsOf(_)
RecordsOf(rs) ==
    IF rs = <<>> THEN <<>>
    ELSE (IF Head(rs).kind = "ok" THEN BodyRecordings(Head(rs)) ELSE <<>>)
         \o RecordsOf(Tail(rs))

\* C1 as stated: with numPages = k on every page and no failed request,
\* get_recordings issues exactly min(k, max_pages) page requests.
C1_MinOfNumPagesAndMaxPages ==
    \A k \in 0..MaxNumPages :
        (GetRecordingsReturned /\ AllPagesReport(k))
            => Len(requested) = Min(k, max_pages)

\* C1 amended: with numPages = k on every page and no failed request,
\* get_recordings issues exactly min(max(k, 1), max_pages) page requests: the
\* first page is requested before any numPages is known, so a server that
\* reports numPages = 0 still gets one request when max_pages >= 1.
C1_PaginationBound ==
    \A k \in 0..MaxNumPages :
        (GetRecordingsReturned /\ AllPagesReport(k))
            => Len(requested) = Min(Max(k, 1), max_pages)

\* Two pages were fetched, with a larger max_pages, from a server that
\* reports numPages = 2 on both.
C1_Witness ==
    /\ GetRecordingsReturned
    /\ Len(requested) = 2
    /\ max_pages > 2
    /\ AllPagesReport(2)

\* C2 as stated: a request that ends in a network failure, a non-2xx status
\* or a malformed response (a body that is not JSON, no usable numPages) is
\* the last one, get_recordings returns the records of the earlier pages, and
\* nothing is raised to the caller.
C2_FailureKeepsPartialResults ==
    \A i \in 1..Len(responses) :
        IsFailure(responses[i]) =>
            /\ i = Len(responses)
            /\ pc # "get_recordings"
            /\ exc.in # "get_recordings"
            /\ recordings = RecordsOf(SubSeq(responses, 1, i - 1))

\* C9: whatever the server answers, the loop of get_recordings ends, and the
\* pages it has requested are 1, 2, ..., n in this order, with n <= max_pages.
C9_LoopEndsAfterConsecutivePages ==
    /\ [](\A i \in 1..Len(requested) : requested[i] = i)
    /\ [](Len(requested) <= max_pages)
    /\ <>(pc # "get_recordings")

\* The loop has ended after a well-formed first page and a failed second one.
C9_Witness ==
    /\ pc # "get_recordings"
    /\ requested = <<1, 2>>
    /\ responses[1].kind = "ok"
    /\ responses[2].kind = "HTTPError"

----------------------------------------------------------------------------
(* Properties of save_recordings_to_csv. *)

\* save_recordings_to_csv has returned: the table file is written.
WriterReturned ==
    \/ pc \in {"download_audio_files", "download_rows", "done"}
    \/ exc.in = "download_audio_files"

\* save_recordings_to_csv has been called and has ended, by a return or by
\* an exception.
WriterEnded == WriterReturned \/ exc.in = "save_recordings_to_csv"

\* The text of header column c in a data row of the table file.
FileCell(file, i, c) ==
    LET j == CHOOSE k \in 1..Len(file.header) : file.header[k] = c
    IN file.rows[i][j]

\* The keys save_recordings_to_csv reads from a record.
RecordKeys == PlainCols \cup {"sono", "osci", "also"}

\* The record without the keys whose value is an explicit null.
WithoutNulls(record) ==
    [k \in {x \in DOMAIN record : record[x].t # "null"} |-> record[k]]

\* The columns fed by key k of a record.
ColumnsOf(k) ==
    IF k \in {"sono", "osci"}
    THEN {c \in DOMAIN NestedCols : NestedCols[c][1] = k}
    ELSE {k}

\* C4 as stated, for a table path whose directory exists: an empty record
\* list still gives a table file with the header row of every declared column
\* and no data row, and download_audio_files on it downloads nothing and ends
\* without error.
C4_EmptyResultGivesHeaderOnlyTable ==
    (recordings = <<>> /\ WriterEnded /\ exc.type # "OSError") =>
        /\ csv_file.exists
        /\ csv_file.header = Columns
        /\ csv_file.rows = <<>>
        /\ exc = NoExc
        /\ attempted = <<>>

\* C5 as stated: when the writer reaches the write of the table, the
\* directory of --filename exists, and when the downloader reaches its rows,
\* --output_dir exists, whatever existed before the run.
C5_DirectoriesCreatedBeforeWriting ==
    /\ (WriterReturned \/ exc = Raised("OSError", "save_recordings_to_csv"))
           => DirExists(dirs, Dirname(filename))
    /\ (pc \in {"download_rows", "done"}) => DirExists(dirs, output_dir)

\* C6 as stated, for a table path whose directory exists: after the fetcher
\* and the writer have run, the table holds one row per record of the fetched
\* pages, in the order received: row i is the flattened i-th record.
C6_OneRowPerRecordInOrder ==
    (GetRecordingsReturned /\ WriterEnded /\ exc.type # "OSError") =>
        /\ csv_file.exists
        /\ Len(csv_file.rows) = Len(RecordsOf(responses))
        /\ \A i \in 1..Len(csv_file.rows) : \A c \in ColumnSet :
               FileCell(csv_file, i, c)
                   = CellText(FlattenRecord(RecordsOf(responses)[i])[c])

\* C7 as stated: for every record handed to the writer, an absent key and a
\* key with an explicit null both give an empty/null cell, the two give the
\* same row, and the writer raises no error because of them.
C7_AbsentAndNullGiveEmptyCells ==
    WriterEnded =>
        /\ exc.type \notin {"TypeError", "AttributeError"}
        /\ \A i \in 1..Len(recordings) : \A k \in RecordKeys :
               DictGet(recordings[i], k) = Null =>
                   /\ FlattenError(recordings[i]) = "none"
                   /\ \A c \in ColumnsOf(k) :
                          CellText(FlattenRecord(recordings[i])[c]) = ""
                   /\ FlattenRecord(recordings[i])
                          = FlattenRecord(WithoutNulls(recordings[i]))

\* In the runs in which save_recordings_to_csv returns, the table does hold
\* the flattened records of the fetched pages, one row each, in order.
TableMatchesRecordsWhenWritten ==
    (GetRecordingsReturned /\ WriterReturned) =>
        /\ csv_file.exists
        /\ Len(csv_file.rows) = Len(RecordsOf(responses))
        /\ \A i \in 1..Len(csv_file.rows) : \A c \in ColumnSet :
               FileCell(csv_file, i, c)
                   = CellText(FlattenRecord(RecordsOf(responses)[i])[c])

----------------------------------------------------------------------------
(* Properties of download_audio_files. *)

HeaderSet(file) == {file.header[j] : j \in 1..Len(file.header)}

\* The table file has both columns the downloader reads.
HasBothColumns(file) ==
    file.exists /\ {"file", "file-name"} \subseteq HeaderSet(file)

\* Every data row of the table file has a file name.
EveryRowNamed(file) ==
    \A i \in 1..Len(file.rows) : FileCell(file, i, "file-name") # ""

\* The rows attempted so far whose GET did not succeed, in order.
FailedRows == SelectSeq(attempted, LAMBDA a : a.outcome # "ok")

\* What C3 says of a call of download_audio_files on the table file: it is
\* not aborted, the rows are attempted one by one in table order, all of them
\* once it is over, a row's file is saved exactly when its GET succeeded, and
\* the failures logged are the file names of the failed rows, one each.
DownloadsSurviveFailures ==
    /\ ~(pc = "raised" /\ exc.in = "download_audio_files")
    /\ pc \in {"download_rows", "done"} =>
        /\ \A i \in 1..Len(attempted) : attempted[i].row = i
        /\ Len(attempted) = row_i - 1
        /\ pc = "done" => Len(attempted) = Len(df.rows)
        /\ saved = {attempted[i].row : i \in {j \in 1..Len(attempted) :
                                                  attempted[j].outcome = "ok"}}
        /\ \A i \in saved : df.rows[i]["file-name"].v \in DOMAIN audio
        /\ Len(failures) = Len(FailedRows)
        /\ \A i \in 1..Len(failures) :
               failures[i] = df.rows[FailedRows[i].row]["file-name"].v

\* C3 as stated: for every table with the two columns, whichever rows' GETs
\* fail, download_audio_files does not abort, every row is attempted in
\* table order, exactly the rows whose GET succeeded are saved and one
\* failure naming the file is logged per failed row.
C3_EveryTableSurvivesFailures ==
    HasBothColumns(csv_file) => DownloadsSurviveFailures

\* C3 amended: the same, for every table with the two columns in which every
\* row has a file name.  (A row with an empty file-name cell ends the call
\* with a TypeError before its GET, also after a failed row.)
C3_NamedRowsSurviveFailures ==
    (HasBothColumns(csv_file) /\ EveryRowNamed(csv_file))
        => DownloadsSurviveFailures

\* A three-row table whose second GET failed with a non-2xx status: the
\* call is over, the first and the third file are saved.
C3_Witness ==
    /\ pc = "done"
    /\ Len(df.rows) = 3
    /\ attempted[2].outcome = "HTTPError"
    /\ saved = {1, 3}
    /\ Len(failures) = 1

\* C8 as stated: on a table file that lacks the file or the file-name column,
\* with any number of data rows, download_audio_files ends in a fatal error
\* and downloads nothing.
C8_MissingColumnIsFatal ==
    (csv_file.exists /\ ~HasBothColumns(csv_file)) =>
        /\ pc # "done"
        /\ attempted = <<>>
        /\ saved = {}

\* C10: a step in which a row's GET fails leaves the files of the output
\* directory as they were: no file is created and none changes content.
C10_FailedRowLeavesFilesUnchanged ==
    [][Len(failures') > Len(failures) => audio' = audio]_vars

\* The GET of a row named a.mp3 failed after an earlier row had saved
\* b.mp3, and the output directory still holds the a.mp3 of an earlier run.
C10_Witness ==
    /\ Len(failures) > 0
    /\ failures[Len(failures)] = "a.mp3"
    /\ saved # {}
    /\ "b.mp3" \in DOMAIN audio
    /\ "a.mp3" \in DOMAIN audio
    /\ audio["a.mp3"] = "old content"


====
